---- MODULE Spec2Model ----
(***************************************************************************)
(* Model of scripts/coverage_report.py (Necromancer's Shell): discovery of *)
(* .gcda artifacts, one gcov invocation per artifact, extraction of the    *)
(* file name and the "Lines executed" figures with two regular             *)
(* expressions, aggregation overall and per category, and the report.      *)
(*                                                                         *)
(* Text is modelled at the granularity the two regular expressions see:    *)
(* the tool output is a sequence of lines, a path is its sequence of       *)
(* '/'-separated segments.  Python floats are IEEE-754 doubles and are     *)
(* modelled bit-exactly: a 53-bit mantissa kept as five 13-bit limbs and a *)
(* binary exponent, every operation rounded to nearest, ties to even.      *)
(***************************************************************************)
EXTENDS Integers, Sequences, FiniteSets, TLC

VARIABLES pc, out, gcda_files, idx, outcomes, coverage_data,
          total_lines, covered_lines, overall_percentage, categories,
          top_files, low_coverage, exit_status, call_arg, call_ret

vars == <<pc, out, gcda_files, idx, outcomes, coverage_data,
          total_lines, covered_lines, overall_percentage, categories,
          top_files, low_coverage, exit_status, call_arg, call_ret>>

(***************************************************************************)
(* Bounds of the model.                                                    *)
(***************************************************************************)
MaxArtifacts == 3
MaxLines == 3
MaxRuns == 3
MaxRunLen == 8
MaxSegs == 4

(***************************************************************************)
(* LET with the value computed once: Bind(v, LAMBDA x : e) is e with v for *)
(* x.  (TLC recomputes a LET definition or an operator argument at each    *)
(* of its uses when it evaluates ENABLED; a bound variable it computes     *)
(* once.)                                                                  *)
(***************************************************************************)
Bind(v, F(_)) == CHOOSE r \in { F(x) : x \in {v} } : TRUE

(***************************************************************************)
(* Natural numbers of arbitrary size: little-endian sequences of limbs in  *)
(* base 2^13, no leading zero limb, <<>> for 0.  (Python integers are      *)
(* unbounded and a double's mantissa has 53 bits.)                         *)
(***************************************************************************)
RECURSIVE Pow2(_)
Pow2(k) == IF k = 0 THEN 1 ELSE 2 * Pow2(k - 1)

LimbBits == 13
LimbBase == Pow2(LimbBits)
MantBits == 4 * LimbBits + 1

RECURSIVE Pow10(_)
Pow10(k) == IF k = 0 THEN 1 ELSE 10 * Pow10(k - 1)

RECURSIVE BitLenSmall(_)
BitLenSmall(n) ==
    Bind(n, LAMBDA v : IF v = 0 THEN 0 ELSE 1 + BitLenSmall(v \div 2))

RECURSIVE BigFromNat(_)
BigFromNat(n) ==
    Bind(n, LAMBDA v :
        IF v = 0 THEN <<>>
        ELSE <<v % LimbBase>> \o BigFromNat(v \div LimbBase))

RECURSIVE BigToNat(_)
BigToNat(a) ==
    Bind(a, LAMBDA v :
        IF v = <<>> THEN 0 ELSE Head(v) + LimbBase * BigToNat(Tail(v)))

BigBitLen(a) ==
    Bind(a, LAMBDA v :
        IF v = <<>> THEN 0
        ELSE LimbBits * (Len(v) - 1) + BitLenSmall(v[Len(v)]))

RECURSIVE BigMulCarry(_, _, _)
BigMulCarry(a, c, carry) ==
    Bind(<<a, carry>>, LAMBDA v :
        IF v[1] = <<>> THEN BigFromNat(v[2])
        ELSE Bind(Head(v[1]) * c + v[2], LAMBDA t :
                <<t % LimbBase>> \o BigMulCarry(Tail(v[1]), c, t \div LimbBase)))

BigMulSmall(a, c) == IF c = 0 THEN <<>> ELSE BigMulCarry(a, c, 0)

\* Quotient and remainder of a by the small divisor d (long division from
\* the most significant limb).
RECURSIVE BigDivSmall(_, _)
BigDivSmall(a, d) ==
    Bind(a, LAMBDA v :
        IF v = <<>> THEN [q |-> <<>>, r |-> 0]
        ELSE Bind(BigDivSmall(Tail(v), d), LAMBDA hi :
                Bind(hi.r * LimbBase + Head(v), LAMBDA t :
                    [q |-> IF hi.q = <<>> /\ t \div d = 0 THEN <<>>
                           ELSE <<t \div d>> \o hi.q,
                     r |-> t % d])))

RECURSIVE BigInc(_)
BigInc(a) ==
    Bind(a, LAMBDA v :
        IF v = <<>> THEN <<1>>
        ELSE IF Head(v) + 1 < LimbBase THEN <<Head(v) + 1>> \o Tail(v)
        ELSE <<0>> \o BigInc(Tail(v)))

BigShiftLeft(a, s) ==
    Bind(<<a, s>>, LAMBDA v :
        IF v[1] = <<>> THEN <<>>
        ELSE [i \in 1..(v[2] \div LimbBits) |-> 0]
                \o BigMulSmall(v[1], Pow2(v[2] % LimbBits)))

\* floor(a / 2^s)
BigShiftRight(a, s) ==
    Bind(<<a, s>>, LAMBDA v :
        IF v[2] \div LimbBits >= Len(v[1]) THEN <<>>
        ELSE BigDivSmall(SubSeq(v[1], v[2] \div LimbBits + 1, Len(v[1])),
                         Pow2(v[2] % LimbBits)).q)

\* a < b for two numbers without leading zero limbs
RECURSIVE BigLessFrom(_, _, _)
BigLessFrom(a, b, i) ==
    IF i = 0 THEN FALSE
    ELSE IF a[i] # b[i] THEN a[i] < b[i]
    ELSE BigLessFrom(a, b, i - 1)

BigLess(a, b) ==
    Bind(<<a, b>>, LAMBDA v :
        IF Len(v[1]) # Len(v[2]) THEN Len(v[1]) < Len(v[2])
        ELSE BigLessFrom(v[1], v[2], Len(v[1])))

(***************************************************************************)
(* IEEE-754 doubles >= 0: FZero, or [m, e] of value m * 2^e with           *)
(* 2^52 <= m < 2^53.                                                       *)
(***************************************************************************)
FZero == [m |-> <<>>, e |-> 0]

\* The quotient qr.q of 53 bits and its remainder qr.r by d, rounded to
\* nearest, ties to even.
RoundNearestEven(qr, d, e) ==
    Bind(IF 2 * qr.r > d \/ (2 * qr.r = d /\ qr.q[1] % 2 = 1)
         THEN BigInc(qr.q) ELSE qr.q,
         LAMBDA m :
            IF BigBitLen(m) > MantBits
            THEN [m |-> BigShiftRight(m, 1), e |-> e + 1]
            ELSE [m |-> m, e |-> e])

\* The double nearest to n / d * 2^e (ties to even), n > 0 a big natural
\* and d >= 1 small: what float("<decimal>"), int / int, float * int and
\* float / int each return, the operation being correctly rounded.
RECURSIVE RoundDiv(_, _, _)
RoundDiv(n, d, e) ==
    Bind(<<n, d, e>>, LAMBDA v :
        Bind(BigDivSmall(v[1], v[2]), LAMBDA qr :
            Bind(BigBitLen(qr.q), LAMBDA b :
                IF b < MantBits
                THEN RoundDiv(BigShiftLeft(v[1], MantBits - b), v[2],
                              v[3] - (MantBits - b))
                ELSE IF b > MantBits
                THEN RoundDiv(v[1], v[2] * Pow2(b - MantBits),
                              v[3] + (b - MantBits))
                ELSE RoundNearestEven(qr, v[2], v[3]))))

FFromInt(n) == IF n = 0 THEN FZero ELSE RoundDiv(BigFromNat(n), 1, 0)

\* float(text) for text = "<ip>.<fp>" with fd fractional digits
FFromDecimal(ip, fp, fd) ==
    Bind(ip * Pow10(fd) + fp, LAMBDA num :
        IF num = 0 THEN FZero ELSE RoundDiv(BigFromNat(num), Pow10(fd), 0))

\* int * float and float * int
FMulInt(f, c) ==
    Bind(f, LAMBDA v :
        IF v = FZero \/ c = 0 THEN FZero
        ELSE RoundDiv(BigMulSmall(v.m, c), 1, v.e))

\* float / int
FDivInt(f, d) ==
    Bind(f, LAMBDA v : IF v = FZero THEN FZero ELSE RoundDiv(v.m, d, v.e))

\* int / int (true division)
IntTrueDiv(a, b) == IF a = 0 THEN FZero ELSE RoundDiv(BigFromNat(a), b, 0)

\* int(f): truncation toward zero
FTrunc(f) ==
    Bind(f, LAMBDA v :
        IF v = FZero THEN 0
        ELSE IF v.e >= 0 THEN BigToNat(BigShiftLeft(v.m, v.e))
        ELSE BigToNat(BigShiftRight(v.m, 0 - v.e)))

\* f < g
FLess(f, g) ==
    Bind(<<f, g>>, LAMBDA v :
        IF v[2] = FZero THEN FALSE
        ELSE IF v[1] = FZero THEN TRUE
        ELSE IF v[1].e # v[2].e THEN v[1].e < v[2].e
        ELSE BigLess(v[1].m, v[2].m))

\* f"{f:.2f}": the number of hundredths printed, the exact binary value
\* times 100 rounded to nearest, ties to even.
FFormat2(f) ==
    Bind(f, LAMBDA v :
        IF v = FZero THEN 0
        ELSE IF v.e >= 0 THEN BigToNat(BigShiftLeft(BigMulSmall(v.m, 100), v.e))
        ELSE Bind(BigMulSmall(v.m, 200), LAMBDA n2 :
                \* floor(2 * value): its last bit is the rounding digit, and
                \* the value is a tie when nothing was shifted out
                Bind(BigShiftRight(n2, 0 - v.e), LAMBDA twice :
                    Bind(BigToNat(twice) \div 2, LAMBDA q :
                        IF BigToNat(twice) % 2 = 1
                           /\ (BigShiftLeft(twice, 0 - v.e) # n2 \/ q % 2 = 1)
                        THEN q + 1 ELSE q))))

(***************************************************************************)
(* Text.  A path is the sequence of its '/'-separated segments ("" first   *)
(* for an absolute path, <<>> for the empty string).  A line of tool       *)
(* output is one of                                                        *)
(*   File '<path>'                                                         *)
(*   Lines executed:<ip>.<fp>% of <total>    (fd fractional digits; fd = 0 *)
(*                                            stands for "<ip>% of ...")   *)
(*   any other line.                                                       *)
(***************************************************************************)
FileLine(p) ==
    [k |-> "File", path |-> p, ip |-> 0, fp |-> 0, fd |-> 0, total |-> 0]

LinesLine(i, f, d, t) ==
    [k |-> "Lines", path |-> <<>>, ip |-> i, fp |-> f, fd |-> d, total |-> t]

OtherLine ==
    [k |-> "Other", path |-> <<>>, ip |-> 0, fp |-> 0, fd |-> 0, total |-> 0]

\* What subprocess.run does for one artifact: it raises, or it returns the
\* two captured streams.
GcovRaises == [raises |-> TRUE, stdout |-> <<>>, stderr |-> <<>>]
GcovPrints(o, e) == [raises |-> FALSE, stdout |-> o, stderr |-> e]

\* r"File '([^']+)'" matches the line
FileRe(line) == line.k = "File" /\ line.path # <<>>

\* r"Lines executed:(\d+\.\d+)% of (\d+)" matches the line
CoverageRe(line) == line.k = "Lines" /\ line.fd >= 1

\* re.search(pattern, output): the index of the leftmost match, 0 for no
\* match (None)
Matches(pattern, line) ==
    IF pattern = "File" THEN FileRe(line) ELSE CoverageRe(line)

RECURSIVE SearchFrom(_, _, _)
SearchFrom(pattern, output, i) ==
    IF i > Len(output) THEN 0
    ELSE IF Matches(pattern, output[i]) THEN i
    ELSE SearchFrom(pattern, output, i + 1)

re_search(pattern, output) == SearchFrom(pattern, output, 1)

(***************************************************************************)
(* parse_gcov_output.  A call either raises or returns a value; the value  *)
(* is None (<<>>) or a record (<<record>>).                                *)
(***************************************************************************)
None == <<>>
Return(v) == [raised |-> FALSE, value |-> v]
Raise == [raised |-> TRUE, value |-> None]

\* Variant: rounds up instead of truncating.
CoveredLines_RoundUp(total, percentage) ==
    FTrunc(FDivInt(FMulInt(percentage, total), 100)) + 1

\* covered_lines = int(total_lines * percentage / 100)
CoveredLines(total, percentage) ==
    FTrunc(FDivInt(FMulInt(percentage, total), 100))

\* Variant: the File line is not required, "if coverage_match:".
ParseTryBody_CoverageOnly(gcov) ==
    IF gcov.raises THEN Raise
    ELSE LET output         == gcov.stdout \o gcov.stderr
             file_match     == re_search("File", output)
             coverage_match == re_search("Lines", output)
         IN  IF coverage_match # 0
             THEN LET cm         == output[coverage_match]
                      percentage == FFromDecimal(cm.ip, cm.fp, cm.fd)
                  IN  Return(<<[file       |-> IF file_match # 0
                                               THEN output[file_match].path
                                               ELSE <<>>,
                                percentage |-> percentage,
                                covered    |-> FTrunc(FDivInt(FMulInt(percentage, cm.total), 100)),
                                total      |-> cm.total]>>)
             ELSE Return(None)

\* The body of the try block: the return inside it, or falling out of it.
ParseTryBody(gcov) ==
    IF gcov.raises THEN Raise
    ELSE LET output         == gcov.stdout \o gcov.stderr
             file_match     == re_search("File", output)
             coverage_match == re_search("Lines", output)
         IN  IF file_match # 0 /\ coverage_match # 0
             THEN LET filename   == output[file_match].path
                      cm         == output[coverage_match]
                      percentage == FFromDecimal(cm.ip, cm.fp, cm.fd)
                      total      == cm.total
                  IN  Return(<<[file       |-> filename,
                                percentage |-> percentage,
                                covered    |-> CoveredLines(total, percentage),
                                total      |-> total]>>)
             ELSE Return(None)

\* Variant: no except clause, an error of the invocation leaves the function.
parse_gcov_output_NoExcept(gcov) == ParseTryBody(gcov)

\* try: ... except Exception: pass; return None
parse_gcov_output(gcov) ==
    LET body == ParseTryBody(gcov)
    IN  IF body.raised THEN Return(None) ELSE body

(***************************************************************************)
(* Categories.                                                             *)
(***************************************************************************)
\* '/a/b/' in file_path: the segments of the fragment occur consecutively,
\* with a segment before them and a segment after them.
Contains(file_path, frag) ==
    \E i \in 2..(Len(file_path) - Len(frag)) :
        SubSeq(file_path, i, i + Len(frag) - 1) = frag

\* Variant: the /utils/ rule is tested before the /core/ rule.
Categorize_UtilsFirst(file_path) ==
    IF Contains(file_path, <<"utils">>) THEN "Utilities"
    ELSE IF Contains(file_path, <<"core">>) THEN "Core Systems"
    ELSE IF Contains(file_path, <<"commands">>) THEN "Command System"
    ELSE IF Contains(file_path, <<"game", "souls">>)
            \/ Contains(file_path, <<"game", "minions">>) THEN "Game Entities"
    ELSE IF Contains(file_path, <<"game", "combat">>) THEN "Combat System"
    ELSE IF Contains(file_path, <<"game", "narrative">>) THEN "Narrative Systems"
    ELSE IF Contains(file_path, <<"game", "world">>) THEN "World Systems"
    ELSE IF Contains(file_path, <<"game", "progression">>) THEN "Progression"
    ELSE IF Contains(file_path, <<"terminal">>) THEN "Terminal/UI"
    ELSE IF Contains(file_path, <<"data">>) THEN "Data Loaders"
    ELSE "Other"

Categorize(file_path) ==
    IF Contains(file_path, <<"core">>) THEN "Core Systems"
    ELSE IF Contains(file_path, <<"commands">>) THEN "Command System"
    ELSE IF Contains(file_path, <<"game", "souls">>)
            \/ Contains(file_path, <<"game", "minions">>) THEN "Game Entities"
    ELSE IF Contains(file_path, <<"game", "combat">>) THEN "Combat System"
    ELSE IF Contains(file_path, <<"game", "narrative">>) THEN "Narrative Systems"
    ELSE IF Contains(file_path, <<"game", "world">>) THEN "World Systems"
    ELSE IF Contains(file_path, <<"game", "progression">>) THEN "Progression"
    ELSE IF Contains(file_path, <<"terminal">>) THEN "Terminal/UI"
    ELSE IF Contains(file_path, <<"utils">>) THEN "Utilities"
    ELSE IF Contains(file_path, <<"data">>) THEN "Data Loaders"
    ELSE "Other"

\* Variant: "=" instead of "+=", the last record of a category wins.
AddToCategory_Overwrite(cats, category, data) ==
    [c \in DOMAIN cats \cup {category} |->
        IF c = category THEN [covered |-> data.covered, total |-> data.total]
        ELSE cats[c]]

\* categories[category]['covered'] += ...; categories[category]['total'] += ...
\* on a defaultdict whose missing entries start as {'covered': 0, 'total': 0}
AddToCategory(cats, category, data) ==
    LET old == IF category \in DOMAIN cats THEN cats[category]
               ELSE [covered |-> 0, total |-> 0]
        new == [covered |-> old.covered + data.covered,
                total   |-> old.total + data.total]
    IN  [c \in DOMAIN cats \cup {category} |->
            IF c = category THEN new ELSE cats[c]]

RECURSIVE GroupFrom(_, _, _)
GroupFrom(cats, data, i) ==
    Bind(cats, LAMBDA v :
        IF i > Len(data) THEN v
        ELSE GroupFrom(AddToCategory(v, Categorize(data[i].file), data[i]),
                       data, i + 1))

EmptyDict == [c \in {} |-> 0]

GroupByCategory(data) == GroupFrom(EmptyDict, data, 1)

\* The eleven labels in the order sorted() gives them (code point order).
SortedLabels ==
    <<"Combat System", "Command System", "Core Systems", "Data Loaders",
      "Game Entities", "Narrative Systems", "Other", "Progression",
      "Terminal/UI", "Utilities", "World Systems">>

SortedKeys(cats) == SelectSeq(SortedLabels, LAMBDA c : c \in DOMAIN cats)

(***************************************************************************)
(* Sums and percentages.                                                   *)
(***************************************************************************)
\* sum(d['total'] for d in coverage_data)
RECURSIVE SumTotal(_)
SumTotal(data) ==
    IF data = <<>> THEN 0 ELSE Head(data).total + SumTotal(Tail(data))

\* sum(d['covered'] for d in coverage_data)
RECURSIVE SumCovered(_)
SumCovered(data) ==
    IF data = <<>> THEN 0 ELSE Head(data).covered + SumCovered(Tail(data))

\* (covered / total * 100) if total > 0 else 0; the division raises
\* ZeroDivisionError on a zero divisor.
TrueDivTimes100(covered, total) ==
    IF total = 0 THEN Raise
    ELSE Return(FMulInt(IntTrueDiv(covered, total), 100))

\* Variant: no guard on the divisor.
OverallPercentage_NoGuard(covered, total) == TrueDivTimes100(covered, total)

OverallPercentage(covered, total) ==
    IF total > 0 THEN TrueDivTimes100(covered, total) ELSE Return(FZero)

CategoryPercentage(stats) ==
    IF stats.total > 0 THEN TrueDivTimes100(stats.covered, stats.total)
    ELSE Return(FZero)

(***************************************************************************)
(* The two file tables.                                                    *)
(***************************************************************************)
TopShown == 10
LowThreshold == 50
LowShown == 15

Min(a, b) == IF a < b THEN a ELSE b

InsertAt(s, i, x) ==
    Bind(i, LAMBDA v : SubSeq(s, 1, v - 1) \o <<x>> \o SubSeq(s, v, Len(s)))

\* Variant: x goes before the first element that is not strictly higher, so
\* equal percentages come out in reverse discovery order.
RECURSIVE DescPos_Unstable(_, _, _)
DescPos_Unstable(s, x, i) ==
    IF i > Len(s) THEN i
    ELSE IF ~FLess(x.percentage, s[i].percentage) THEN i
    ELSE DescPos_Unstable(s, x, i + 1)

\* Where a stable descending sort puts x among the already sorted s: before
\* the first element of strictly lower percentage.
RECURSIVE DescPos(_, _, _)

DescPos(s, x, i) ==
    IF i > Len(s) THEN i
    ELSE IF FLess(s[i].percentage, x.percentage) THEN i
    ELSE DescPos(s, x, i + 1)

\* sorted(data, key=lambda x: x['percentage'], reverse=True)
RECURSIVE SortedDescFrom(_, _, _)
SortedDescFrom(data, i, acc) ==
    Bind(acc, LAMBDA v :
        IF i > Len(data) THEN v
        ELSE SortedDescFrom(data, i + 1,
                            InsertAt(v, DescPos(v, data[i], 1), data[i])))

SortedDesc(data) == SortedDescFrom(data, 1, <<>>)

\* Where a stable ascending sort puts x: before the first element of
\* strictly higher percentage.
RECURSIVE AscPos(_, _, _)
AscPos(s, x, i) ==
    IF i > Len(s) THEN i
    ELSE IF FLess(x.percentage, s[i].percentage) THEN i
    ELSE AscPos(s, x, i + 1)

\* list.sort(key=lambda x: x['percentage'])
RECURSIVE SortedAscFrom(_, _, _)
SortedAscFrom(data, i, acc) ==
    Bind(acc, LAMBDA v :
        IF i > Len(data) THEN v
        ELSE SortedAscFrom(data, i + 1,
                           InsertAt(v, AscPos(v, data[i], 1), data[i])))

SortedAsc(data) == SortedAscFrom(data, 1, <<>>)

\* sorted(coverage_data, ..., reverse=True)[:10]
TopFiles(data) ==
    LET s == SortedDesc(data) IN SubSeq(s, 1, Min(TopShown, Len(s)))

\* Variant: "<=" instead of "<".
IsLow_Inclusive(d) == ~FLess(FFromInt(LowThreshold), d.percentage)

\* d['percentage'] < 50
IsLow(d) == FLess(d.percentage, FFromInt(LowThreshold))

\* [d for d in coverage_data if d['percentage'] < 50], then sorted in place
LowCoverage(data) == SortedAsc(SelectSeq(data, IsLow))

\* low_coverage[:15]
LowRows(low) == SubSeq(low, 1, Min(LowShown, Len(low)))

\* os.path.basename
Basename(file_path) ==
    IF file_path = <<>> THEN "" ELSE file_path[Len(file_path)]

FileRow(tag, d) ==
    <<tag, Basename(d.file), FFormat2(d.percentage), d.covered, d.total>>

(***************************************************************************)
(* What the environment can supply.                                        *)
(***************************************************************************)
PathEngine == <<"src", "core", "engine.c">>
PathCombat == <<"src", "game", "combat", "combat.c">>
PathLogger == <<"src", "utils", "logger.c">>
PathMixed  == <<"src", "utils", "core", "x.c">>
PathMain   == <<"main.c">>

\* Results of one gcov invocation in a run of main().
GcovResults ==
    { GcovRaises,
      GcovPrints(<<OtherLine>>, <<OtherLine>>),
      GcovPrints(<<FileLine(PathEngine), OtherLine>>, <<>>),
      GcovPrints(<<LinesLine(75, 0, 2, 40)>>, <<OtherLine>>),
      GcovPrints(<<FileLine(PathEngine), LinesLine(75, 0, 2, 40)>>, <<>>),
      GcovPrints(<<FileLine(PathCombat), LinesLine(10, 0, 2, 20)>>, <<>>),
      GcovPrints(<<FileLine(PathLogger), LinesLine(90, 0, 2, 10),
                   FileLine(PathMain), LinesLine(0, 0, 2, 0)>>, <<>>),
      GcovPrints(<<FileLine(PathMixed), LinesLine(50, 0, 2, 8)>>, <<>>),
      GcovPrints(<<FileLine(PathMain), LinesLine(0, 0, 2, 0)>>, <<>>) }

\* Lines of tool output for parse_gcov_output taken alone.
LinePool ==
    { FileLine(PathEngine), FileLine(PathLogger), FileLine(<<>>),
      LinesLine(75, 0, 2, 40), LinesLine(18, 40, 2, 375),
      LinesLine(150, 0, 2, 10), LinesLine(75, 0, 0, 40),
      LinesLine(0, 0, 2, 0), LinesLine(99, 5, 1, 200), OtherLine }

SeqsUpTo(S, n) == UNION { [1..k -> S] : k \in 0..n }

ParseInputs ==
    { GcovRaises } \cup
    { GcovPrints(o, e) : o \in SeqsUpTo(LinePool, MaxLines),
                         e \in { <<>>, <<LinesLine(100, 0, 2, 7)>> } }

\* Path segments for the classification taken alone.
SegPool ==
    { "core", "commands", "game", "souls", "minions", "combat", "narrative",
      "world", "progression", "terminal", "utils", "data", "x.c" }

PathInputs == SeqsUpTo(SegPool, MaxSegs)

\* Well-formed results for the report taken alone, supplied in runs.
ReportResults ==
    { GcovPrints(<<FileLine(PathCombat), LinesLine(10, 0, 2, 20)>>, <<>>),
      GcovPrints(<<FileLine(PathEngine), LinesLine(10, 0, 2, 40)>>, <<>>),
      GcovPrints(<<FileLine(PathLogger), LinesLine(49, 99, 2, 100)>>, <<>>),
      GcovPrints(<<FileLine(PathMixed), LinesLine(50, 0, 2, 8)>>, <<>>) }

RunLens == { 1, MaxRunLen }

RunSeqs == UNION { [1..k -> ReportResults \X RunLens] : k \in 1..MaxRuns }

RECURSIVE Expand(_)
Expand(runs) ==
    IF runs = <<>> THEN <<>>
    ELSE [i \in 1..Head(runs)[2] |-> Head(runs)[1]] \o Expand(Tail(runs))

(***************************************************************************)
(* main().  pc is the position in the function; out is what was printed;   *)
(* outcomes records, for each gcov invocation made so far, what the tool   *)
(* did; exit_status is -1 while running, 0 after main returns, 1 after an  *)
(* exception left main.                                                    *)
(***************************************************************************)
Init ==
    /\ pc = "start"
    /\ out = <<>>
    /\ gcda_files = <<>>
    /\ idx = 1
    /\ outcomes = <<>>
    /\ coverage_data = <<>>
    /\ total_lines = 0
    /\ covered_lines = 0
    /\ overall_percentage = FZero
    /\ categories = EmptyDict
    /\ top_files = <<>>
    /\ low_coverage = <<>>
    /\ exit_status = -1
    /\ call_arg = <<>>
    /\ call_ret = <<>>

Returned == pc' = "done" /\ exit_status' = 0
Raised == pc' = "raised" /\ exit_status' = 1

PrintBanner ==
    /\ pc = "start"
    /\ out' = Append(out, <<"banner">>)
    /\ pc' = "walk"
    /\ UNCHANGED <<gcda_files, idx, outcomes, coverage_data, total_lines,
                   covered_lines, overall_percentage, categories, top_files,
                   low_coverage, exit_status, call_arg, call_ret>>

\* os.walk('build'): any number of .gcda files, named here by their rank
FindGcdaFiles ==
    /\ pc = "walk"
    /\ \E n \in 0..MaxArtifacts : gcda_files' = [i \in 1..n |-> i]
    /\ pc' = "found"
    /\ UNCHANGED <<out, idx, outcomes, coverage_data, total_lines,
                   covered_lines, overall_percentage, categories, top_files,
                   low_coverage, exit_status, call_arg, call_ret>>

\* Variant: the return after the message is missing.
NoCoverageData_NoReturn ==
    /\ pc = "found"
    /\ gcda_files = <<>>
    /\ out' = Append(out, <<"no_coverage_data">>)
    /\ pc' = "parse"
    /\ UNCHANGED <<gcda_files, idx, outcomes, coverage_data, total_lines,
                   covered_lines, overall_percentage, categories, top_files,
                   low_coverage, exit_status, call_arg, call_ret>>

NoCoverageData ==
    /\ pc = "found"
    /\ gcda_files = <<>>
    /\ out' = Append(out, <<"no_coverage_data">>)
    /\ Returned
    /\ UNCHANGED <<gcda_files, idx, outcomes, coverage_data, total_lines,
                   covered_lines, overall_percentage, categories, top_files,
                   low_coverage, call_arg, call_ret>>

PrintFound ==
    /\ pc = "found"
    /\ gcda_files # <<>>
    /\ out' = Append(out, <<"found", Len(gcda_files)>>)
    /\ pc' = "parse"
    /\ UNCHANGED <<gcda_files, idx, outcomes, coverage_data, total_lines,
                   covered_lines, overall_percentage, categories, top_files,
                   low_coverage, exit_status, call_arg, call_ret>>

\* One iteration of "for gcda_file in gcda_files"
ParseNext ==
    /\ pc = "parse"
    /\ idx <= Len(gcda_files)
    /\ \E gcov \in GcovResults :
         LET data == parse_gcov_output(gcov)
         IN  /\ outcomes' = Append(outcomes, gcov)
             /\ IF data.raised
                THEN /\ Raised
                     /\ UNCHANGED <<idx, coverage_data>>
                ELSE /\ coverage_data' = IF data.value # None
                                         THEN coverage_data \o data.value
                                         ELSE coverage_data
                     /\ idx' = idx + 1
                     /\ UNCHANGED <<pc, exit_status>>
    /\ UNCHANGED <<out, gcda_files, total_lines, covered_lines,
                   overall_percentage, categories, top_files, low_coverage,
                   call_arg, call_ret>>

CouldNotParse ==
    /\ pc = "parse"
    /\ idx > Len(gcda_files)
    /\ coverage_data = <<>>
    /\ out' = Append(out, <<"could_not_parse">>)
    /\ Returned
    /\ UNCHANGED <<gcda_files, idx, outcomes, coverage_data, total_lines,
                   covered_lines, overall_percentage, categories, top_files,
                   low_coverage, call_arg, call_ret>>

OverallStatistics ==
    /\ pc = "parse"
    /\ idx > Len(gcda_files)
    /\ coverage_data # <<>>
    /\ total_lines' = SumTotal(coverage_data)
    /\ covered_lines' = SumCovered(coverage_data)
    /\ LET p == OverallPercentage(covered_lines', total_lines')
       IN  IF p.raised
           THEN /\ Raised
                /\ UNCHANGED <<out, overall_percentage>>
           ELSE /\ overall_percentage' = p.value
                /\ out' = Append(out, <<"overall", FFormat2(p.value),
                                        covered_lines', total_lines'>>)
                /\ pc' = "group"
                /\ UNCHANGED exit_status
    /\ UNCHANGED <<gcda_files, idx, outcomes, coverage_data, categories,
                   top_files, low_coverage, call_arg, call_ret>>

GroupCategories ==
    /\ pc = "group"
    /\ categories' = GroupByCategory(coverage_data)
    /\ pc' = "print_categories"
    /\ UNCHANGED <<out, gcda_files, idx, outcomes, coverage_data, total_lines,
                   covered_lines, overall_percentage, top_files, low_coverage,
                   exit_status, call_arg, call_ret>>

\* The rows "for category in sorted(categories.keys())" prints, up to the
\* first whose percentage raises.
CategoryRows(cats) ==
    LET keys == SortedKeys(cats)
    IN  [i \in 1..Len(keys) |->
            LET stats == cats[keys[i]]
                p     == CategoryPercentage(stats)
            IN  IF p.raised THEN <<"raised">>
                ELSE <<"category_row", keys[i], FFormat2(p.value),
                       stats.covered, stats.total>>]

PrintCategories ==
    /\ pc = "print_categories"
    /\ LET rows == CategoryRows(categories)
       IN  IF \E i \in 1..Len(rows) : rows[i] = <<"raised">>
           THEN /\ Raised
                /\ UNCHANGED out
           ELSE /\ out' = out \o <<<<"category_header">>>> \o rows
                /\ pc' = "print_top"
                /\ UNCHANGED exit_status
    /\ UNCHANGED <<gcda_files, idx, outcomes, coverage_data, total_lines,
                   covered_lines, overall_percentage, categories, top_files,
                   low_coverage, call_arg, call_ret>>

PrintTopFiles ==
    /\ pc = "print_top"
    /\ top_files' = TopFiles(coverage_data)
    /\ out' = out \o <<<<"top_header">>>>
                  \o [i \in 1..Len(top_files') |-> FileRow("top_row", top_files'[i])]
    /\ pc' = "print_low"
    /\ UNCHANGED <<gcda_files, idx, outcomes, coverage_data, total_lines,
                   covered_lines, overall_percentage, categories,
                   low_coverage, exit_status, call_arg, call_ret>>

PrintLowCoverage ==
    /\ pc = "print_low"
    /\ low_coverage' = LowCoverage(coverage_data)
    /\ out' = IF low_coverage' # <<>>
              THEN LET shown == LowRows(low_coverage')
                   IN  out \o <<<<"low_header", Len(low_coverage')>>>>
                           \o [i \in 1..Len(shown) |-> FileRow("low_row", shown[i])]
              ELSE Append(out, <<"all_clear">>)
    /\ pc' = "print_closing"
    /\ UNCHANGED <<gcda_files, idx, outcomes, coverage_data, total_lines,
                   covered_lines, overall_percentage, categories, top_files,
                   exit_status, call_arg, call_ret>>

PrintClosing ==
    /\ pc = "print_closing"
    /\ out' = Append(out, <<"closing">>)
    /\ Returned
    /\ UNCHANGED <<gcda_files, idx, outcomes, coverage_data, total_lines,
                   covered_lines, overall_percentage, categories, top_files,
                   low_coverage, call_arg, call_ret>>

Next ==
    \/ PrintBanner
    \/ FindGcdaFiles
    \/ NoCoverageData
    \/ PrintFound
    \/ ParseNext
    \/ CouldNotParse
    \/ OverallStatistics
    \/ GroupCategories
    \/ PrintCategories
    \/ PrintTopFiles
    \/ PrintLowCoverage
    \/ PrintClosing

Spec == Init /\ [][Next]_vars

\* main() runs to its end: every step is taken once it is enabled, each
\* gcov invocation returning or raising.
FairSpec == Spec /\ WF_vars(Next)

(***************************************************************************)
(* parse_gcov_output taken alone, on one tool result.                      *)
(***************************************************************************)
InitParse ==
    /\ pc = "call_parse"
    /\ call_arg \in ParseInputs
    /\ call_ret = <<>>
    /\ out = <<>> /\ gcda_files = <<>> /\ idx = 1 /\ outcomes = <<>>
    /\ coverage_data = <<>> /\ total_lines = 0 /\ covered_lines = 0
    /\ overall_percentage = FZero /\ categories = EmptyDict
    /\ top_files = <<>> /\ low_coverage = <<>> /\ exit_status = -1

CallParse ==
    /\ pc = "call_parse"
    /\ call_ret' = parse_gcov_output(call_arg)
    /\ pc' = "ret_parse"
    /\ UNCHANGED <<out, gcda_files, idx, outcomes, coverage_data, total_lines,
                   covered_lines, overall_percentage, categories, top_files,
                   low_coverage, exit_status, call_arg>>

NextParse == CallParse

SpecParse == InitParse /\ [][NextParse]_vars

(***************************************************************************)
(* The classification taken alone, on one path.                            *)
(***************************************************************************)
InitCategory ==
    /\ pc = "call_category"
    /\ call_arg \in PathInputs
    /\ call_ret = <<>>
    /\ out = <<>> /\ gcda_files = <<>> /\ idx = 1 /\ outcomes = <<>>
    /\ coverage_data = <<>> /\ total_lines = 0 /\ covered_lines = 0
    /\ overall_percentage = FZero /\ categories = EmptyDict
    /\ top_files = <<>> /\ low_coverage = <<>> /\ exit_status = -1

CallCategorize ==
    /\ pc = "call_category"
    /\ call_ret' = <<Categorize(call_arg)>>
    /\ pc' = "ret_category"
    /\ UNCHANGED <<out, gcda_files, idx, outcomes, coverage_data, total_lines,
                   covered_lines, overall_percentage, categories, top_files,
                   low_coverage, exit_status, call_arg>>

NextCategory == CallCategorize

SpecCategory == InitCategory /\ [][NextCategory]_vars

(***************************************************************************)
(* The report taken alone: main() from the end of the parsing loop, every  *)
(* artifact having produced a record.                                      *)
(***************************************************************************)
InitReport ==
    /\ pc = "parse"
    /\ \E runs \in RunSeqs :
         /\ outcomes = Expand(runs)
         /\ coverage_data = [i \in 1..Len(outcomes) |->
                                parse_gcov_output(outcomes[i]).value[1]]
    /\ gcda_files = [i \in 1..Len(outcomes) |-> i]
    /\ idx = Len(outcomes) + 1
    /\ out = <<<<"banner">>, <<"found", Len(outcomes)>>>>
    /\ total_lines = 0 /\ covered_lines = 0
    /\ overall_percentage = FZero /\ categories = EmptyDict
    /\ top_files = <<>> /\ low_coverage = <<>> /\ exit_status = -1
    /\ call_arg = <<>> /\ call_ret = <<>>

NextReport ==
    \/ OverallStatistics
    \/ GroupCategories
    \/ PrintCategories
    \/ PrintTopFiles
    \/ PrintLowCoverage
    \/ PrintClosing

SpecReport == InitReport /\ [][NextReport]_vars

(***************************************************************************)
(* Vocabulary of the properties, stated on the text of the tool output     *)
(* and on what was printed, not on the operators above.                    *)
(***************************************************************************)
Output(g) == g.stdout \o g.stderr

IsFileLine(l) == l.k = "File" /\ l.path # <<>>
IsLinesLine(l) == l.k = "Lines" /\ l.fd >= 1

HasFileLine(g) == \E i \in 1..Len(Output(g)) : IsFileLine(Output(g)[i])
HasLinesLine(g) == \E i \in 1..Len(Output(g)) : IsLinesLine(Output(g)[i])

\* The artifact must yield no record.
Dropped(g) == g.raises \/ ~HasFileLine(g) \/ ~HasLinesLine(g)

FirstFile(g) ==
    LET o == Output(g)
    IN  o[CHOOSE i \in 1..Len(o) :
            IsFileLine(o[i]) /\ \A j \in 1..(i - 1) : ~IsFileLine(o[j])]

FirstLines(g) ==
    LET o == Output(g)
    IN  o[CHOOSE i \in 1..Len(o) :
            IsLinesLine(o[i]) /\ \A j \in 1..(i - 1) : ~IsLinesLine(o[j])]

\* The percentage a Lines line states, as a fraction Num / Den.
PctNum(l) == l.ip * Pow10(l.fd) + l.fp
PctDen(l) == Pow10(l.fd)

Kept == SelectSeq(outcomes, LAMBDA g : ~Dropped(g))

RECURSIVE SumStatedTotal(_)
SumStatedTotal(gs) ==
    IF gs = <<>> THEN 0
    ELSE FirstLines(Head(gs)).total + SumStatedTotal(Tail(gs))

RECURSIVE CatTotalSum(_, _)
CatTotalSum(cats, S) ==
    IF S = {} THEN 0
    ELSE LET c == CHOOSE x \in S : TRUE
         IN  cats[c].total + CatTotalSum(cats, S \ {c})

RECURSIVE CatCoveredSum(_, _)
CatCoveredSum(cats, S) ==
    IF S = {} THEN 0
    ELSE LET c == CHOOSE x \in S : TRUE
         IN  cats[c].covered + CatCoveredSum(cats, S \ {c})

Range(s) == { s[i] : i \in 1..Len(s) }
Count(s, x) == Cardinality({ i \in 1..Len(s) : s[i] = x })
Abs(n) == IF n < 0 THEN 0 - n ELSE n
Rows(tag) == SelectSeq(out, LAMBDA r : r[1] = tag)

\* The hundredths of a percent of each record, as printed.
Hundredths(data) == [i \in 1..Len(data) |-> FFormat2(data[i].percentage)]

\* h hundredths of a percent is covered / total * 100 to the printed
\* precision, and 0 for a zero total.
IsPercentageOf(h, covered, total) ==
    IF total = 0 THEN h = 0
    ELSE 2 * Abs(h * total - 10000 * covered) <= total

\* Positions of main() after the given step, on the path of a full report.
FullReport == coverage_data # <<>>
AfterStats ==
    \/ pc \in {"group", "print_categories", "print_top", "print_low", "print_closing"}
    \/ pc = "done" /\ FullReport
AfterGroup ==
    \/ pc \in {"print_categories", "print_top", "print_low", "print_closing"}
    \/ pc = "done" /\ FullReport
AfterCategories ==
    \/ pc \in {"print_top", "print_low", "print_closing"}
    \/ pc = "done" /\ FullReport
AfterTop ==
    \/ pc \in {"print_low", "print_closing"}
    \/ pc = "done" /\ FullReport
AfterLow ==
    \/ pc = "print_closing"
    \/ pc = "done" /\ FullReport

\* The ordered rules of the classification.
Rules ==
    << [frags |-> {<<"core">>},                               label |-> "Core Systems"],
       [frags |-> {<<"commands">>},                           label |-> "Command System"],
       [frags |-> {<<"game", "souls">>, <<"game", "minions">>}, label |-> "Game Entities"],
       [frags |-> {<<"game", "combat">>},                     label |-> "Combat System"],
       [frags |-> {<<"game", "narrative">>},                  label |-> "Narrative Systems"],
       [frags |-> {<<"game", "world">>},                      label |-> "World Systems"],
       [frags |-> {<<"game", "progression">>},                label |-> "Progression"],
       [frags |-> {<<"terminal">>},                           label |-> "Terminal/UI"],
       [frags |-> {<<"utils">>},                              label |-> "Utilities"],
       [frags |-> {<<"data">>},                               label |-> "Data Loaders"] >>

Labels == { Rules[i].label : i \in 1..Len(Rules) } \cup {"Other"}

\* The fragment occurs in the path: it is in the path joined with '/',
\* between two separators.
Occurs(frag, path) ==
    \E a \in 1..Len(path), b \in 1..Len(path) :
        /\ a < b
        /\ b - a - 1 = Len(frag)
        /\ \A k \in 1..Len(frag) : path[a + k] = frag[k]

RuleApplies(i, path) == \E f \in Rules[i].frags : Occurs(f, path)

ExpectedLabel(path) ==
    IF \E i \in 1..Len(Rules) : RuleApplies(i, path)
    THEN Rules[CHOOSE i \in 1..Len(Rules) :
                  RuleApplies(i, path) /\ \A j \in 1..(i - 1) : ~RuleApplies(j, path)].label
    ELSE "Other"

(***************************************************************************)
(* Properties.                                                             *)
(***************************************************************************)

\* C1: extraction is fail-silent.  An artifact whose gcov invocation raises,
\* or whose output lacks the File line or the Lines executed line, yields no
\* record and no error reaches main(): the records are exactly those of the
\* other artifacts, in order, every artifact is still invoked once, and the
\* overall sums, the category sums, the top table and the low-coverage list
\* are made of those records only.
C1_FailSilent ==
    /\ pc # "raised"
    /\ Len(coverage_data) = Len(Kept)
    /\ \A i \in 1..Len(Kept) :
          /\ coverage_data[i].file = FirstFile(Kept[i]).path
          /\ coverage_data[i].total = FirstLines(Kept[i]).total
    /\ pc = "parse" => Len(outcomes) = idx - 1
    /\ pc \notin {"start", "walk", "found", "parse"} =>
          Len(outcomes) = Len(gcda_files)
    /\ AfterStats =>
          /\ total_lines = SumStatedTotal(Kept)
          /\ covered_lines = SumCovered(coverage_data)
    /\ AfterGroup =>
          CatTotalSum(categories, DOMAIN categories) = SumStatedTotal(Kept)
    /\ AfterTop =>
          /\ Len(top_files) = Min(TopShown, Len(Kept))
          /\ Range(top_files) \subseteq Range(coverage_data)
          /\ Len(Rows("top_row")) = Len(top_files)
    /\ AfterLow =>
          /\ Range(low_coverage) \subseteq Range(coverage_data)
          /\ Len(Rows("low_row")) <= Len(Kept)

\* A full report made after one invocation raised and one output lacked a
\* required line, the third artifact having been processed all the same.
C1_Witness ==
    /\ pc = "done"
    /\ Len(outcomes) = 3
    /\ outcomes[1].raises
    /\ ~outcomes[2].raises /\ Dropped(outcomes[2])
    /\ ~Dropped(outcomes[3])
    /\ Len(coverage_data) = 1

\* C2: the overall percentage is sum(covered) / sum(total) * 100 over all
\* parsed records, records of the same path being summed, and exactly 0 when
\* sum(total) is 0 (the empty record set included); every category row uses
\* the same guarded formula; no run reaches a division by zero.
C2_ZeroGuardedPercentage ==
    /\ pc # "raised"
    /\ OverallPercentage(SumCovered(<<>>), SumTotal(<<>>)) = Return(FZero)
    /\ AfterStats =>
          /\ total_lines = SumStatedTotal(Kept)
          /\ covered_lines = SumCovered(coverage_data)
          /\ total_lines = 0 => overall_percentage = FZero
          /\ IsPercentageOf(FFormat2(overall_percentage), covered_lines, total_lines)
          /\ Rows("overall") =
                <<<<"overall", FFormat2(overall_percentage), covered_lines, total_lines>>>>
    /\ AfterCategories =>
          /\ Len(Rows("category_row")) = Cardinality(DOMAIN categories)
          /\ \A i \in 1..Len(Rows("category_row")) :
                LET r == Rows("category_row")[i]
                IN  /\ r[4] = categories[r[2]].covered
                    /\ r[5] = categories[r[2]].total
                    /\ IsPercentageOf(r[3], r[4], r[5])

\* Two records of the same path, both of zero lines: the sums are 0 and the
\* overall percentage is 0.
C2_Witness ==
    /\ pc = "done"
    /\ Len(coverage_data) >= 2
    /\ coverage_data[1].file = coverage_data[2].file
    /\ total_lines = 0
    /\ overall_percentage = FZero

\* C3: the classification is total with first-match precedence: every path
\* gets exactly one of the eleven labels, that of the first rule, in the
\* fixed order, one of whose fragments occurs in the path, and "Other" when
\* none occurs.
C3_FirstMatchClassification ==
    pc = "ret_category" =>
        /\ call_ret = <<ExpectedLabel(call_arg)>>
        /\ call_ret[1] \in Labels
        /\ Cardinality(Labels) = 11

\* A path in which the fragment of a later rule comes before the fragment
\* of an earlier rule.
C3_Witness ==
    /\ pc = "ret_category"
    /\ RuleApplies(1, call_arg)
    /\ RuleApplies(9, call_arg)
    /\ call_arg[2] = "utils"
    /\ call_ret = <<"Core Systems">>

\* C4: for every output with both required lines, extraction yields a
\* record whose total is that of the first matching Lines executed line and
\* whose covered count is floor(total * percentage / 100) for the percentage
\* that line states.
C4_CoveredIsFloor ==
    (pc = "ret_parse" /\ ~Dropped(call_arg)) =>
        /\ ~call_ret.raised
        /\ call_ret.value # None
        /\ LET r  == call_ret.value[1]
               cm == FirstLines(call_arg)
           IN  /\ r.total = cm.total
               /\ r.covered = (cm.total * PctNum(cm)) \div (100 * PctDen(cm))

\* The tags of what was printed, and the order the report gives them.
OutTags == [i \in 1..Len(out) |-> out[i][1]]

RowTags == {"category_row", "top_row", "low_row"}

Phase(tag) ==
    CASE tag = "banner" -> 1
      [] tag = "found" -> 2
      [] tag = "overall" -> 3
      [] tag = "category_header" -> 4
      [] tag = "category_row" -> 5
      [] tag = "top_header" -> 6
      [] tag = "top_row" -> 7
      [] tag \in {"low_header", "all_clear"} -> 8
      [] tag = "low_row" -> 9
      [] tag = "closing" -> 10
      [] OTHER -> 0

\* C5: a finished run has printed one of three sequences: (a) no artifact:
\* banner, "no coverage data", with no gcov invocation; (b) artifacts but no
\* record: banner, count, "could not parse"; (c) records: banner, count,
\* overall, category table, top table, low-coverage section (its list or
\* the all-clear message), closing banner, in that order.
C5_ThreeOutputShapes ==
    /\ pc # "raised"
    /\ pc = "done" =>
          \/ /\ gcda_files = <<>>
             /\ out = <<<<"banner">>, <<"no_coverage_data">>>>
             /\ outcomes = <<>>
          \/ /\ gcda_files # <<>>
             /\ coverage_data = <<>>
             /\ out = <<<<"banner">>, <<"found", Len(gcda_files)>>,
                        <<"could_not_parse">>>>
          \/ /\ gcda_files # <<>>
             /\ coverage_data # <<>>
             /\ out[2] = <<"found", Len(gcda_files)>>
             /\ SelectSeq(OutTags, LAMBDA t : t \notin RowTags) \in
                   { <<"banner", "found", "overall", "category_header",
                       "top_header", "low_header", "closing">>,
                     <<"banner", "found", "overall", "category_header",
                       "top_header", "all_clear", "closing">> }
             /\ \A i \in 1..Len(out), j \in 1..Len(out) :
                   i < j => Phase(OutTags[i]) <= Phase(OutTags[j])
             /\ \A i \in 1..Len(out) :
                   OutTags[i] = "low_row" => "low_header" \in Range(OutTags)

\* Artifacts were found and none could be parsed.
C5_Witness ==
    /\ pc = "done"
    /\ Len(gcda_files) >= 2
    /\ coverage_data = <<>>
    /\ out[Len(out)] = <<"could_not_parse">>

\* C6: the low-coverage list holds exactly the records whose percentage is
\* strictly below 50 (50.00 itself is not), in ascending order of
\* percentage; its first 15 at most are printed; the all-clear message is
\* printed instead if and only if no record is below 50.
C6_LowCoverageList ==
    AfterLow =>
        LET h   == Hundredths(coverage_data)
            hl  == Hundredths(low_coverage)
            low == { i \in 1..Len(coverage_data) : h[i] < 100 * LowThreshold }
        IN  /\ Len(low_coverage) = Cardinality(low)
            /\ \A i \in 1..Len(coverage_data) :
                  Count(low_coverage, coverage_data[i]) =
                      IF i \in low THEN Count(coverage_data, coverage_data[i])
                      ELSE 0
            /\ \A i \in 1..Len(hl), j \in 1..Len(hl) : i < j => hl[i] <= hl[j]
            /\ Len(Rows("low_row")) = Min(15, Len(low_coverage))
            /\ \A i \in 1..Len(Rows("low_row")) :
                  Rows("low_row")[i] =
                      <<"low_row", Basename(low_coverage[i].file), hl[i],
                        low_coverage[i].covered, low_coverage[i].total>>
            /\ (Rows("all_clear") # <<>>) <=> (low = {})
            /\ (Rows("low_header") # <<>>) <=> (low # {})

\* More than 15 records below 50, of two percentages and not discovered in
\* ascending order, and a record at exactly 50.00.
C6_Witness ==
    /\ pc = "done"
    /\ Len(low_coverage) > LowShown
    /\ Len(Rows("low_row")) = LowShown
    /\ \E i \in 1..Len(coverage_data) :
          FFormat2(coverage_data[i].percentage) = 100 * LowThreshold
    /\ FLess(coverage_data[2].percentage, coverage_data[1].percentage)
    /\ FLess(low_coverage[1].percentage, low_coverage[Len(low_coverage)].percentage)

\* The place of record i among the records of hundredths h, ordered by
\* percentage descending and then by discovery order.
Rank(h, i) ==
    1 + Cardinality({ j \in 1..Len(h) : h[j] > h[i] })
      + Cardinality({ j \in 1..(i - 1) : h[j] = h[i] })

\* C7: the top table lists min(10, number of records) records in descending
\* order of percentage, records of equal percentage in discovery order, so
\* that no record left out has a higher percentage than a listed one.
C7_TopTable ==
    AfterTop =>
        LET h  == Hundredths(coverage_data)
            ht == Hundredths(top_files)
        IN  /\ Len(top_files) = Min(10, Len(coverage_data))
            /\ \A i \in 1..Len(coverage_data) :
                  IF Rank(h, i) <= Len(top_files)
                  THEN top_files[Rank(h, i)] = coverage_data[i]
                  ELSE \A k \in 1..Len(ht) : h[i] <= ht[k]
            /\ \A i \in 1..Len(ht), j \in 1..Len(ht) : i < j => ht[i] >= ht[j]
            /\ Rows("top_row") =
                  [i \in 1..Len(top_files) |->
                      <<"top_row", Basename(top_files[i].file), ht[i],
                        top_files[i].covered, top_files[i].total>>]

\* More than ten records, not discovered in descending order, two different
\* records of equal percentage among the listed ones.
C7_Witness ==
    /\ pc = "done"
    /\ Len(coverage_data) > TopShown
    /\ Len(top_files) = TopShown
    /\ FLess(coverage_data[1].percentage, coverage_data[Len(coverage_data)].percentage)
    /\ \E i \in 1..TopShown, j \in 1..TopShown :
          /\ i < j
          /\ top_files[i].percentage = top_files[j].percentage
          /\ top_files[i].file # top_files[j].file

\* C8: with finitely many artifacts and every gcov invocation returning or
\* raising, main() terminates, with status 0 on each of its paths; no error
\* of an invocation or of parsing leaves main(), and no artifact is invoked
\* a second time.
C8_TerminatesWithSuccess ==
    /\ <>(pc = "done" /\ exit_status = 0)
    /\ [](pc # "raised" /\ exit_status \in {-1, 0})
    /\ [](Len(outcomes) <= Len(gcda_files))
    /\ [](pc = "parse" => Len(outcomes) = idx - 1)

\* A run that ended with status 0 although every invocation raised.
C8_Witness ==
    /\ pc = "done"
    /\ exit_status = 0
    /\ Len(outcomes) = MaxArtifacts
    /\ \A i \in 1..Len(outcomes) : outcomes[i].raises

C10_Conservation ==
    AfterGroup =>
        /\ CatCoveredSum(categories, DOMAIN categories) = covered_lines
        /\ CatTotalSum(categories, DOMAIN categories) = total_lines
        /\ DOMAIN categories =
              { ExpectedLabel(coverage_data[i].file) : i \in 1..Len(coverage_data) }
        /\ \A c \in DOMAIN categories :
              LET mine == SelectSeq(coverage_data,
                                    LAMBDA d : ExpectedLabel(d.file) = c)
              IN  /\ categories[c].total = SumTotal(mine)
                  /\ categories[c].covered = SumCovered(mine)
        /\ AfterCategories =>
              /\ { Rows("category_row")[i][2] : i \in 1..Len(Rows("category_row")) }
                    = DOMAIN categories
              /\ Len(Rows("category_row")) = Cardinality(DOMAIN categories)

\* Three records in two categories, one category receiving two of them.
C10_Witness ==
    /\ pc = "done"
    /\ Len(coverage_data) = 3
    /\ Cardinality(DOMAIN categories) = 2
    /\ covered_lines > 0
    /\ \E c \in DOMAIN categories : categories[c].total < total_lines

====
